---------------------------- MODULE Spec2Model ----------------------------
(*************************************************************************)
(* The three repository-hygiene checkers of scripts/: repo_lint,          *)
(* docs_index_check and architecture_lint.  Each is a batch program that  *)
(* inspects a filesystem rooted at ROOT, prints lines to standard output  *)
(* and ends with an exit status.  The state is the filesystem snapshot,   *)
(* the checker that is invoked and its two most recent completed runs;    *)
(* a run is recorded as the sequence of filesystem operations, substring  *)
(* tests and prints main() performs, with the way the process ended.      *)
(*************************************************************************)
EXTENDS Integers, Sequences, FiniteSets

VARIABLES fs, checker, runs

vars == <<fs, checker, runs>>

-----------------------------------------------------------------------------
(* Bounds of the model. *)

\* Deviations of a snapshot from the conforming repository (repo_lint).
MaxDeviations == 2

\* AGENTS.md line counts range over MAX_AGENTS_LINES -/+ LineWindow (and 0).
LineWindow == 1

-----------------------------------------------------------------------------
(* Python str operations used by the checkers. *)

\* needle in hay
Occurs(needle, hay) ==
    \E i \in 1..(Len(hay) - Len(needle) + 1) :
        SubSeq(hay, i, i + Len(needle) - 1) = needle

\* s.startswith(prefix)
StartsWith(s, prefix) ==
    /\ Len(prefix) <= Len(s)
    /\ SubSeq(s, 1, Len(prefix)) = prefix

DecimalDigits == "0123456789"

\* f"{n}" for a non-negative int
RECURSIVE Str(_)
Str(n) ==
    IF n < 10 THEN SubSeq(DecimalDigits, n + 1, n + 1)
    ELSE Str(n \div 10) \o SubSeq(DecimalDigits, (n % 10) + 1, (n % 10) + 1)

\* The positions of "\n" in text[lo..hi], ascending (by halves, so that the
\* evaluation does not nest as deep as the text is long).
RECURSIVE NewlinesIn(_, _, _)
NewlinesIn(text, lo, hi) ==
    IF lo > hi THEN <<>>
    ELSE IF lo = hi THEN (IF SubSeq(text, lo, lo) = "\n" THEN <<lo>> ELSE <<>>)
    ELSE LET mid == (lo + hi) \div 2
         IN  NewlinesIn(text, lo, mid) \o NewlinesIn(text, mid + 1, hi)

\* str.splitlines(), for texts whose only line boundary is "\n": each newline
\* ends a line, and what follows the last newline is a line when not empty.
SplitLines(text) ==
    LET nl    == NewlinesIn(text, 1, Len(text))
        first(k) == IF k = 1 THEN 1 ELSE nl[k - 1] + 1
        ended == [k \in 1..Len(nl) |-> SubSeq(text, first(k), nl[k] - 1)]
        rest  == first(Len(nl) + 1)
    IN  IF rest <= Len(text)
        THEN Append(ended, SubSeq(text, rest, Len(text)))
        ELSE ended

\* Code points of the characters that begin the top-level names compared by
\* sorted(); str comparison is lexicographic by code point.
Alphabet == ".0123456789ABCDEFGHIJKLMNOPQRSTUVWXYZ_abcdefghijklmnopqrstuvwxyz"

CodeRank(c) == CHOOSE i \in 1..Len(Alphabet) : SubSeq(Alphabet, i, i) = c

\* a < b on str
RECURSIVE StrLess(_, _)
StrLess(a, b) ==
    IF Len(a) = 0 THEN Len(b) > 0
    ELSE IF Len(b) = 0 THEN FALSE
    ELSE IF SubSeq(a, 1, 1) = SubSeq(b, 1, 1)
         THEN StrLess(SubSeq(a, 2, Len(a)), SubSeq(b, 2, Len(b)))
    ELSE CodeRank(SubSeq(a, 1, 1)) < CodeRank(SubSeq(b, 1, 1))

\* Insertion of x into an ascending list.
RECURSIVE InsertSorted(_, _)
InsertSorted(x, seq) ==
    IF seq = <<>> THEN <<x>>
    ELSE IF StrLess(x, Head(seq)) THEN <<x>> \o seq
    ELSE <<Head(seq)>> \o InsertSorted(x, Tail(seq))

\* sorted(iterable): the elements in ascending order, whatever order the
\* iterable yields them in.
RECURSIVE Sorted(_)
Sorted(seq) ==
    IF seq = <<>> THEN <<>> ELSE InsertSorted(Head(seq), Sorted(Tail(seq)))

\* sep.join(seq)
RECURSIVE Join(_, _)
Join(sep, seq) ==
    IF seq = <<>> THEN ""
    ELSE IF Len(seq) = 1 THEN seq[1]
    ELSE seq[1] \o sep \o Join(sep, Tail(seq))

-----------------------------------------------------------------------------
(* pathlib. *)

\* ROOT = Path(__file__).resolve().parents[1]
ROOT == "/repo"

\* base / rel
PathJoin(base, rel) == base \o "/" \o rel

\* path.relative_to(base), for a path under base
RelativeTo(path, base) == SubSeq(path, Len(base) + 2, Len(path))

\* Whether q lies strictly below directory p.
IsUnder(q, p) == StartsWith(q, p \o "/")

\* The position of the last "/" of p at or before i.
RECURSIVE LastSlash(_, _)
LastSlash(p, i) == IF SubSeq(p, i, i) = "/" THEN i ELSE LastSlash(p, i - 1)

\* path.parent, for a path below the filesystem's root
Parent(p) == SubSeq(p, 1, LastSlash(p, Len(p)) - 1)

\* path.name
Name(p) == SubSeq(p, Len(Parent(p)) + 2, Len(p))

-----------------------------------------------------------------------------
(* The module-level constants of the three scripts. *)

MAX_AGENTS_LINES == 200

REQUIRED_FILES ==
    << PathJoin(ROOT, "AGENTS.md"),
       PathJoin(ROOT, "ARCHITECTURE.md"),
       PathJoin(ROOT, "CONTRIBUTING.md"),
       PathJoin(ROOT, "SECURITY.md"),
       PathJoin(ROOT, "RELIABILITY.md"),
       PathJoin(ROOT, "QUALITY_SCORE.md"),
       PathJoin(ROOT, ".gitignore"),
       PathJoin(PathJoin(ROOT, ".github"), "PULL_REQUEST_TEMPLATE.md"),
       PathJoin(PathJoin(PathJoin(ROOT, ".github"), "workflows"), "ci.yml"),
       PathJoin(PathJoin(PathJoin(ROOT, ".github"), "ISSUE_TEMPLATE"), "feature.md"),
       PathJoin(PathJoin(PathJoin(ROOT, ".github"), "ISSUE_TEMPLATE"), "bug.md"),
       PathJoin(PathJoin(PathJoin(ROOT, ".github"), "ISSUE_TEMPLATE"), "tech_debt.md"),
       PathJoin(PathJoin(PathJoin(ROOT, "docs"), "00_index"), "README.md") >>

REQUIRED_DOC_DIRS ==
    << "docs/00_index",
       "docs/01_product",
       "docs/02_architecture",
       "docs/03_execution_plans",
       "docs/04_runbooks",
       "docs/05_decisions",
       "docs/06_reference" >>

DISALLOWED_TOP_LEVEL_DIRS == {"tmp", "notes", "misc"}

EXPECTED_INDEX_REFERENCES ==
    << "docs/01_product/",
       "docs/02_architecture/",
       "docs/03_execution_plans/",
       "docs/04_runbooks/",
       "docs/05_decisions/",
       "docs/06_reference/" >>

\* docs_index_check.py
INDEX == PathJoin(PathJoin(PathJoin(ROOT, "docs"), "00_index"), "README.md")

REQUIRED_LINKS ==
    << "docs/01_product/",
       "docs/02_architecture/",
       "docs/03_execution_plans/",
       "docs/04_runbooks/",
       "docs/05_decisions/",
       "docs/06_reference/" >>

\* architecture_lint.py
BOUNDARIES ==
    PathJoin(PathJoin(PathJoin(ROOT, "docs"), "02_architecture"), "boundaries.md")

REQUIRED_SECTIONS ==
    << "# Architecture Boundaries",
       "## Purpose",
       "## Planned Layers",
       "## Dependency Rules (initial)" >>

\* The three scripts.
Checkers == {"repo_lint", "docs_index_check", "architecture_lint"}

-----------------------------------------------------------------------------
(* The filesystem under ROOT, as the scripts can observe it: the kind of   *)
(* every path, and for the three files that are read their bytes' text and *)
(* whether read_text(encoding="utf-8") can deliver it.                     *)

Kinds == {"absent", "file", "dir"}

AGENTS == PathJoin(ROOT, "AGENTS.md")

Range(seq) == {seq[i] : i \in 1..Len(seq)}

DocDirPaths == {PathJoin(ROOT, REQUIRED_DOC_DIRS[i]) : i \in 1..Len(REQUIRED_DOC_DIRS)}

\* Directories that hold required paths.
ContainerDirs ==
    { PathJoin(ROOT, "docs"),
      PathJoin(ROOT, ".github"),
      PathJoin(PathJoin(ROOT, ".github"), "workflows"),
      PathJoin(PathJoin(ROOT, ".github"), "ISSUE_TEMPLATE") }

\* Further children of ROOT that a snapshot may hold.
ExtraTopLevel ==
    { PathJoin(ROOT, "tmp"), PathJoin(ROOT, "notes"), PathJoin(ROOT, "misc"),
      PathJoin(ROOT, ".tmp") }

AllPaths ==
    Range(REQUIRED_FILES) \cup DocDirPaths \cup ContainerDirs
        \cup {BOUNDARIES} \cup ExtraTopLevel

ReadPaths == {AGENTS, INDEX, BOUNDARIES}

\* Path.exists()
Exists(snap, path) == snap.kind[path] # "absent"

\* Faulty variant of IsDir: is_file() called where is_dir() is meant.
IsDirAsIsFile(snap, path) == snap.kind[path] = "file"

\* Path.is_dir()
IsDir(snap, path) == snap.kind[path] = "dir"

\* Path.read_text(encoding="utf-8"): the text, or an exception (OSError for a
\* missing path or a directory, UnicodeDecodeError for bytes that are not UTF-8).
ReadText(snap, path) ==
    IF snap.kind[path] = "file" /\ snap.decodable[path]
    THEN [raised |-> FALSE, text |-> snap.content[path]]
    ELSE [raised |-> TRUE, text |-> ""]

\* ROOT.iterdir(): the children of ROOT (a set here; the order in which they are
\* yielded is lost in the set comprehension that consumes them).
IterDir(snap, dir) ==
    {p \in AllPaths : snap.kind[p] # "absent" /\ Parent(p) = dir}

-----------------------------------------------------------------------------
(* A run of a script: the operations main() performs in order (filesystem  *)
(* queries, substring tests, prints to standard output) and how the        *)
(* process ends.  An exception nobody catches ends the process with the    *)
(* interpreter's traceback on standard error and exit status 1.            *)

Ev(op, arg) == [op |-> op, arg |-> arg]

\* main() goes on after the operations in tr.
Continue(tr) ==
    [trace |-> tr, ended |-> FALSE, status |-> 0, uncaught |-> FALSE]

\* The process ends with exit status code after the operations in tr.
Exit(tr, code) ==
    [trace |-> tr, ended |-> TRUE, status |-> code, uncaught |-> FALSE]

\* An exception raised by a filesystem operation propagates out of main().
Uncaught(tr) ==
    [trace |-> tr, ended |-> TRUE, status |-> 1, uncaught |-> TRUE]

\* print(line)
PrintLine(tr, line) == Append(tr, Ev("print", line))

\* Faulty variant of Fail: the message is printed without the "ERROR: " marker.
FailUnmarked(tr, msg) == Exit(PrintLine(tr, msg), 1)

\* repo_lint.fail(msg)
Fail(tr, msg) == Exit(PrintLine(tr, "ERROR: " \o msg), 1)

\* The lines a run wrote to standard output.
Stdout(run) ==
    LET IsPrint(e) == e.op = "print"
        printed == SelectSeq(run.trace, IsPrint)
    IN  [i \in 1..Len(printed) |-> printed[i].arg]

-----------------------------------------------------------------------------
(* repo_lint.py *)

\* for path in REQUIRED_FILES: if not path.exists(): fail(...)
RECURSIVE RequiredFilesLoop(_, _, _)
RequiredFilesLoop(snap, i, tr) ==
    IF i > Len(REQUIRED_FILES) THEN Continue(tr)
    ELSE LET path == REQUIRED_FILES[i]
             tr1  == Append(tr, Ev("exists", path))
         IN  IF ~Exists(snap, path)
             THEN Fail(tr1, "Missing required file: " \o RelativeTo(path, ROOT))
             ELSE RequiredFilesLoop(snap, i + 1, tr1)

\* for rel in REQUIRED_DOC_DIRS: if not (ROOT / rel).is_dir(): fail(...)
RECURSIVE RequiredDirsLoop(_, _, _)
RequiredDirsLoop(snap, i, tr) ==
    IF i > Len(REQUIRED_DOC_DIRS) THEN Continue(tr)
    ELSE LET rel  == REQUIRED_DOC_DIRS[i]
             path == PathJoin(ROOT, rel)
             tr1  == Append(tr, Ev("is_dir", path))
         IN  IF ~IsDir(snap, path)
             THEN Fail(tr1, "Missing required directory: " \o rel)
             ELSE RequiredDirsLoop(snap, i + 1, tr1)

\* Faulty variant of TooLong: >= where > is meant.
TooLongAtCeiling(line_count) == line_count >= MAX_AGENTS_LINES

\* line_count > MAX_AGENTS_LINES
TooLong(line_count) == line_count > MAX_AGENTS_LINES

\* The AGENTS.md line-count check.
AgentsLineCount(snap, tr) ==
    LET agents == PathJoin(ROOT, "AGENTS.md")
        tr1    == Append(tr, Ev("read_text", agents))
        got    == ReadText(snap, agents)
    IN  IF got.raised THEN Uncaught(tr1)
        ELSE LET line_count == Len(SplitLines(got.text))
             IN  IF TooLong(line_count)
                 THEN Fail(tr1, "AGENTS.md too long: " \o Str(line_count)
                                    \o " lines (max " \o Str(MAX_AGENTS_LINES) \o ")")
                 ELSE Continue(tr1)

\* for ref in EXPECTED_INDEX_REFERENCES: if ref not in index_text: fail(...)
RECURSIVE IndexReferencesLoop(_, _, _)
IndexReferencesLoop(index_text, i, tr) ==
    IF i > Len(EXPECTED_INDEX_REFERENCES) THEN Continue(tr)
    ELSE LET ref == EXPECTED_INDEX_REFERENCES[i]
             tr1 == Append(tr, Ev("in", ref))
         IN  IF ~Occurs(ref, index_text)
             THEN Fail(tr1, "docs index missing reference: " \o ref)
             ELSE IndexReferencesLoop(index_text, i + 1, tr1)

\* The docs index check.
IndexReferences(snap, tr) ==
    LET index == PathJoin(PathJoin(PathJoin(ROOT, "docs"), "00_index"), "README.md")
        tr1   == Append(tr, Ev("read_text", index))
        got   == ReadText(snap, index)
    IN  IF got.raised THEN Uncaught(tr1)
        ELSE IndexReferencesLoop(got.text, 1, tr1)

\* Faulty variant of TopLevelDirs: the p.is_dir() filter is left out.
TopLevelEntries(snap) ==
    {Name(p) : p \in {q \in IterDir(snap, ROOT) : ~StartsWith(Name(q), ".")}}

\* {p.name for p in ROOT.iterdir() if p.is_dir() and not p.name.startswith(".")}
TopLevelDirs(snap) ==
    {Name(p) : p \in {q \in IterDir(snap, ROOT) :
                          IsDir(snap, q) /\ ~StartsWith(Name(q), ".")}}

\* top_level_dirs & DISALLOWED_TOP_LEVEL_DIRS
DisallowedPresent(snap) == TopLevelDirs(snap) \cap DISALLOWED_TOP_LEVEL_DIRS

\* Iterating a set yields its elements in an order the program does not
\* control: any listing of the set without repetition.
IterationOrders(set) ==
    {o \in [1..Cardinality(set) -> set] : Range(o) = set}

\* Faulty variant of Offenders: sorted() is left out.
OffendersUnsorted(iterated) == iterated

\* sorted(...) of the set that yields its elements as the list iterated
Offenders(iterated) == Sorted(iterated)

\* The disallowed top-level directory check.
TopLevelCheck(iterated, tr) ==
    LET tr1       == Append(tr, Ev("iterdir", ROOT))
        offenders == Offenders(iterated)
    IN  IF offenders # <<>>
        THEN Fail(tr1, "Disallowed top-level directories found: "
                           \o Join(", ", offenders))
        ELSE Continue(tr1)

\* Faulty variant of RepoLintChecks: AGENTS.md is read before the required
\* directories are checked.
RepoLintChecksReadEarly(snap) ==
    LET a == RequiredFilesLoop(snap, 1, <<>>)
    IN  IF a.ended THEN a ELSE
    LET c == AgentsLineCount(snap, a.trace)
    IN  IF c.ended THEN c ELSE
    LET b == RequiredDirsLoop(snap, 1, c.trace)
    IN  IF b.ended THEN b ELSE
    IndexReferences(snap, b.trace)

\* main() up to the read of the docs index: the required files, the required
\* directories, the AGENTS.md line count, the index references.
RepoLintChecks(snap) ==
    LET a == RequiredFilesLoop(snap, 1, <<>>)
    IN  IF a.ended THEN a ELSE
    LET b == RequiredDirsLoop(snap, 1, a.trace)
    IN  IF b.ended THEN b ELSE
    LET c == AgentsLineCount(snap, b.trace)
    IN  IF c.ended THEN c ELSE
    IndexReferences(snap, c.trace)

\* The rest of main(), after checks d: the top-level directories, then the
\* success line; falling off the end of main(), the script exits 0.
RepoLintMain(d, iterated) ==
    IF d.ended THEN d ELSE
    LET e == TopLevelCheck(iterated, d.trace)
    IN  IF e.ended THEN e ELSE
    Exit(PrintLine(e.trace, "repo_lint: OK"), 0)

-----------------------------------------------------------------------------
(* docs_index_check.py *)

\* Faulty variant of MissingLinks: only the first missing link is kept.
MissingLinksFirstOnly(text) ==
    LET NotIn(link) == ~Occurs(link, text)
        all == SelectSeq(REQUIRED_LINKS, NotIn)
    IN  IF all = <<>> THEN <<>> ELSE <<all[1]>>

\* [link for link in REQUIRED_LINKS if link not in text]
MissingLinks(text) ==
    LET NotIn(link) == ~Occurs(link, text)
    IN  SelectSeq(REQUIRED_LINKS, NotIn)

\* for link in missing: print(f" - {link}")
RECURSIVE PrintBullets(_, _, _)
PrintBullets(missing, i, tr) ==
    IF i > Len(missing) THEN tr
    ELSE PrintBullets(missing, i + 1, PrintLine(tr, " - " \o missing[i]))

\* The substring tests of the comprehension, in REQUIRED_LINKS order.
LinkTests(tr) ==
    tr \o [i \in 1..Len(REQUIRED_LINKS) |-> Ev("in", REQUIRED_LINKS[i])]

\* main(), with raise SystemExit(main())
DocsIndexCheckMain(snap) ==
    LET tr0 == <<Ev("exists", INDEX)>>
    IN  IF ~Exists(snap, INDEX)
        THEN Exit(PrintLine(tr0, "ERROR: docs/00_index/README.md is missing"), 1)
        ELSE
    LET tr1 == Append(tr0, Ev("read_text", INDEX))
        got == ReadText(snap, INDEX)
    IN  IF got.raised THEN Uncaught(tr1)
        ELSE
    LET missing == MissingLinks(got.text)
        tr2     == LinkTests(tr1)
    IN  IF missing # <<>>
        THEN Exit(PrintBullets(missing, 1,
                      PrintLine(tr2, "ERROR: docs index is missing required references:")), 1)
        ELSE Exit(PrintLine(tr2, "docs_index_check: OK"), 0)

-----------------------------------------------------------------------------
(* architecture_lint.py *)

\* for section in REQUIRED_SECTIONS: if section not in text: print(...); return 1
RECURSIVE SectionsLoop(_, _, _)
SectionsLoop(text, i, tr) ==
    IF i > Len(REQUIRED_SECTIONS) THEN Continue(tr)
    ELSE LET section == REQUIRED_SECTIONS[i]
             tr1     == Append(tr, Ev("in", section))
         IN  IF ~Occurs(section, text)
             THEN Exit(PrintLine(tr1, "ERROR: boundaries file missing section: " \o section), 1)
             ELSE SectionsLoop(text, i + 1, tr1)

\* main(), with raise SystemExit(main())
ArchitectureLintMain(snap) ==
    LET tr0 == <<Ev("exists", BOUNDARIES)>>
    IN  IF ~Exists(snap, BOUNDARIES)
        THEN Exit(PrintLine(tr0, "ERROR: missing docs/02_architecture/boundaries.md"), 1)
        ELSE
    LET tr1 == Append(tr0, Ev("read_text", BOUNDARIES))
        got == ReadText(snap, BOUNDARIES)
    IN  IF got.raised THEN Uncaught(tr1)
        ELSE
    LET s == SectionsLoop(got.text, 1, tr1)
    IN  IF s.ended THEN s
        ELSE Exit(PrintLine(s.trace, "architecture_lint: OK (placeholder)"), 0)

-----------------------------------------------------------------------------
(* The snapshots the checkers are run against.  A snapshot is described by *)
(* the kind of every path, the AGENTS.md text, the form in which the index *)
(* mentions each documentation directory, the form of each section heading *)
(* of the boundaries file, and the files whose bytes are not UTF-8.  The   *)
(* conforming repository is the layout all three checkers accept, with     *)
(* AGENTS.md exactly at its line ceiling.                                  *)

RECURSIVE Repeat(_, _)
Repeat(s, n) ==
    IF n = 0 THEN ""
    ELSE LET half == Repeat(s, n \div 2)
         IN  IF n % 2 = 0 THEN half \o half ELSE half \o half \o s

\* n terminated lines, then an unterminated one when tail is not empty.
AgentsText(n, tail) == Repeat("x\n", n) \o tail

LinkForms == {"link", "noslash", "none"}

RECURSIVE IndexTextFrom(_, _)
IndexTextFrom(forms, i) ==
    IF i > Len(REQUIRED_LINKS) THEN ""
    ELSE LET link == REQUIRED_LINKS[i]
             line == CASE forms[i] = "link"    -> "- " \o link \o "\n"
                       [] forms[i] = "noslash" -> "- " \o SubSeq(link, 1, Len(link) - 1) \o "\n"
                       [] OTHER                -> ""
         IN  line \o IndexTextFrom(forms, i + 1)

IndexText(forms) == "# Documentation index\n" \o IndexTextFrom(forms, 1)

SectionForms == {"same", "nested", "none"}

RECURSIVE BoundariesTextFrom(_, _)
BoundariesTextFrom(forms, i) ==
    IF i > Len(REQUIRED_SECTIONS) THEN ""
    ELSE LET section == REQUIRED_SECTIONS[i]
             para    == CASE forms[i] = "same"   -> section \o "\n\ntext\n\n"
                          [] forms[i] = "nested" -> "#" \o section \o "\n\ntext\n\n"
                          [] OTHER               -> ""
         IN  para \o BoundariesTextFrom(forms, i + 1)

BoundariesText(forms) == BoundariesTextFrom(forms, 1)

ConformingKind ==
    [p \in AllPaths |->
        IF p \in Range(REQUIRED_FILES) \cup {BOUNDARIES} THEN "file"
        ELSE IF p \in DocDirPaths \cup ContainerDirs THEN "dir"
        ELSE "absent"]

Conforming ==
    [kind      |-> ConformingKind,
     agents    |-> AgentsText(MAX_AGENTS_LINES, ""),
     links     |-> [i \in 1..Len(REQUIRED_LINKS) |-> "link"],
     sections  |-> [i \in 1..Len(REQUIRED_SECTIONS) |-> "same"],
     decodable |-> [p \in ReadPaths |-> TRUE]]

\* The filesystem a description stands for.
Materialize(d) ==
    [kind      |-> d.kind,
     content   |-> [p \in ReadPaths |->
                       CASE p = AGENTS -> d.agents
                         [] p = INDEX  -> IndexText(d.links)
                         [] OTHER      -> BoundariesText(d.sections)],
     decodable |-> d.decodable]

\* p and everything below it is deleted.
Remove(kind, p) ==
    [q \in AllPaths |-> IF q = p \/ IsUnder(q, p) THEN "absent" ELSE kind[q]]

\* A file is replaced by an empty directory, a directory (with what it holds)
\* by a file.
Flip(kind, p) ==
    CASE kind[p] = "file" -> [kind EXCEPT ![p] = "dir"]
      [] kind[p] = "dir"  ->
            [q \in AllPaths |-> IF q = p THEN "file"
                                ELSE IF IsUnder(q, p) THEN "absent" ELSE kind[q]]
      [] OTHER            -> kind

\* One deviation of a description.
Dev(op, path, arg) == [op |-> op, path |-> path, arg |-> arg]

Deviate(d, dev) ==
    CASE dev.op = "remove"      -> [d EXCEPT !.kind = Remove(d.kind, dev.path)]
      [] dev.op = "flip"        -> [d EXCEPT !.kind = Flip(d.kind, dev.path)]
      [] dev.op = "create"      -> [d EXCEPT !.kind[dev.path] = dev.arg]
      [] dev.op = "agents"      -> [d EXCEPT !.agents = dev.arg]
      [] dev.op = "link"        ->
            [d EXCEPT !.links =
                [i \in 1..Len(REQUIRED_LINKS) |->
                    IF REQUIRED_LINKS[i] = dev.path THEN dev.arg ELSE d.links[i]]]
      [] dev.op = "undecodable" -> [d EXCEPT !.decodable[dev.path] = FALSE]
      [] OTHER                  -> d

\* The AGENTS.md texts around the line ceiling, and the empty file.
AgentsFullLines ==
    <<0>> \o [i \in 1..(2 * LineWindow + 1) |-> MAX_AGENTS_LINES - LineWindow - 1 + i]

\* The deviations repo_lint can tell apart: a required path (or the directory
\* that holds it) deleted or replaced by the other kind, an entry added to
\* ROOT, another AGENTS.md text, a reference that the index lacks or mentions
\* without its final "/", a read file that is not UTF-8.
RepoDeviations ==
    <<Dev("none", "", "")>>
    \o [i \in 1..Len(REQUIRED_FILES) |-> Dev("remove", REQUIRED_FILES[i], "")]
    \o [i \in 1..Len(REQUIRED_DOC_DIRS) |->
           Dev("remove", PathJoin(ROOT, REQUIRED_DOC_DIRS[i]), "")]
    \o <<Dev("remove", PathJoin(ROOT, "docs"), ""),
         Dev("remove", PathJoin(ROOT, ".github"), "")>>
    \o [i \in 1..Len(REQUIRED_FILES) |-> Dev("flip", REQUIRED_FILES[i], "")]
    \o [i \in 1..Len(REQUIRED_DOC_DIRS) |->
           Dev("flip", PathJoin(ROOT, REQUIRED_DOC_DIRS[i]), "")]
    \o <<Dev("create", PathJoin(ROOT, "tmp"), "dir"),
         Dev("create", PathJoin(ROOT, "notes"), "dir"),
         Dev("create", PathJoin(ROOT, "misc"), "dir"),
         Dev("create", PathJoin(ROOT, "tmp"), "file"),
         Dev("create", PathJoin(ROOT, ".tmp"), "dir")>>
    \o [i \in 1..Len(AgentsFullLines) |-> Dev("agents", "", AgentsText(AgentsFullLines[i], ""))]
    \o [i \in 1..Len(AgentsFullLines) |-> Dev("agents", "", AgentsText(AgentsFullLines[i], "x"))]
    \o [i \in 1..Len(REQUIRED_LINKS) |-> Dev("link", REQUIRED_LINKS[i], "none")]
    \o <<Dev("link", REQUIRED_LINKS[Len(REQUIRED_LINKS)], "noslash"),
         Dev("undecodable", AGENTS, ""),
         Dev("undecodable", INDEX, "")>>

\* The description reached from the conforming repository by devs[i..], the
\* deviations named by index, applied in turn.
RECURSIVE DeviateAll(_, _, _)
DeviateAll(d, devs, i) ==
    IF i > Len(devs) THEN d
    ELSE DeviateAll(Deviate(d, RepoDeviations[devs[i]]), devs, i + 1)

\* At most MaxDeviations deviations, picked in the order of RepoDeviations.
RepoChoices ==
    {c \in [1..MaxDeviations -> 1..Len(RepoDeviations)] :
        \A i \in 1..(MaxDeviations - 1) : c[i] <= c[i + 1]}

\* What docs_index_check can tell apart: the index file's kind, encoding and
\* every combination of link forms.
DocsFamily ==
    {[Conforming EXCEPT !.links = f] : f \in [1..Len(REQUIRED_LINKS) -> LinkForms]}
        \cup {[Conforming EXCEPT !.kind = Remove(Conforming.kind, INDEX)],
              [Conforming EXCEPT !.kind = Remove(Conforming.kind, Parent(INDEX))],
              [Conforming EXCEPT !.kind = Flip(Conforming.kind, INDEX)],
              [Conforming EXCEPT !.decodable[INDEX] = FALSE]}

\* What architecture_lint can tell apart.
ArchFamily ==
    {[Conforming EXCEPT !.sections = f] : f \in [1..Len(REQUIRED_SECTIONS) -> SectionForms]}
        \cup {[Conforming EXCEPT !.kind = Remove(Conforming.kind, BOUNDARIES)],
              [Conforming EXCEPT !.kind = Remove(Conforming.kind, Parent(BOUNDARIES))],
              [Conforming EXCEPT !.kind = Flip(Conforming.kind, BOUNDARIES)],
              [Conforming EXCEPT !.decodable[BOUNDARIES] = FALSE]}

-----------------------------------------------------------------------------
(* The state machine: a checker is invoked, repeatedly, on a filesystem    *)
(* that does not change.                                                   *)

Init ==
    /\ checker \in Checkers
    /\ runs = <<>>
    /\ \/ /\ checker = "repo_lint"
          /\ \E devs \in RepoChoices : fs = Materialize(DeviateAll(Conforming, devs, 1))
       \/ /\ checker = "docs_index_check"
          /\ \E d \in DocsFamily : fs = Materialize(d)
       \/ /\ checker = "architecture_lint"
          /\ \E d \in ArchFamily : fs = Materialize(d)

Finished(outcome) ==
    [trace |-> outcome.trace, status |-> outcome.status, uncaught |-> outcome.uncaught]

\* The history keeps the two most recent runs.
Record(history, run) ==
    IF Len(history) < 2 THEN Append(history, run) ELSE <<history[2], run>>

RunRepoLint ==
    /\ checker = "repo_lint"
    /\ \E checks \in {RepoLintChecks(fs)} :
          \E iterated \in IF checks.ended THEN {<<>>}
                          ELSE IterationOrders(DisallowedPresent(fs)) :
              runs' = Record(runs, Finished(RepoLintMain(checks, iterated)))
    /\ UNCHANGED <<fs, checker>>

RunDocsIndexCheck ==
    /\ checker = "docs_index_check"
    /\ runs' = Record(runs, Finished(DocsIndexCheckMain(fs)))
    /\ UNCHANGED <<fs, checker>>

RunArchitectureLint ==
    /\ checker = "architecture_lint"
    /\ runs' = Record(runs, Finished(ArchitectureLintMain(fs)))
    /\ UNCHANGED <<fs, checker>>

Next == RunRepoLint \/ RunDocsIndexCheck \/ RunArchitectureLint

Spec == Init /\ [][Next]_vars

-----------------------------------------------------------------------------
(* The expectations of the specification, stated on the snapshot alone.    *)

\* PathExists(path, File)
FileExpected(path) == fs.kind[path] = "file"

\* PathExists(path, Directory)
DirExpected(path) == fs.kind[path] = "dir"

\* The path is a file whose bytes are UTF-8 text.
Readable(path) == fs.kind[path] = "file" /\ fs.decodable[path]

\* The number of lines of a text: one per newline, and one more for what
\* follows the last newline.
LineCountOf(text) ==
    Cardinality({i \in 1..Len(text) : SubSeq(text, i, i) = "\n"})
        + (IF Len(text) > 0 /\ SubSeq(text, Len(text), Len(text)) # "\n" THEN 1 ELSE 0)

\* LineCountAtMost(AGENTS.md, MAX_AGENTS_LINES)
LineCountExpected ==
    Readable(AGENTS) /\ LineCountOf(fs.content[AGENTS]) <= MAX_AGENTS_LINES

\* The indices of the required substrings that the file's text lacks.
Lacking(path, required) ==
    {i \in 1..Len(required) : ~Occurs(required[i], fs.content[path])}

\* ContainsAll(path, required)
ContainsAllExpected(path, required) ==
    Readable(path) /\ Lacking(path, required) = {}

\* The disallowed names that are directories directly under ROOT (none of
\* the disallowed names begins with ".").
OffendingDirs == {n \in DISALLOWED_TOP_LEVEL_DIRS : fs.kind[PathJoin(ROOT, n)] = "dir"}

AllFilesExpected == \A i \in 1..Len(REQUIRED_FILES) : FileExpected(REQUIRED_FILES[i])

AllDirsExpected ==
    \A i \in 1..Len(REQUIRED_DOC_DIRS) : DirExpected(PathJoin(ROOT, REQUIRED_DOC_DIRS[i]))

\* Every expectation of the invoked checker is satisfied.
AllSatisfied ==
    CASE checker = "repo_lint" ->
            /\ AllFilesExpected
            /\ AllDirsExpected
            /\ LineCountExpected
            /\ ContainsAllExpected(INDEX, EXPECTED_INDEX_REFERENCES)
            /\ OffendingDirs = {}
      [] checker = "docs_index_check" -> ContainsAllExpected(INDEX, REQUIRED_LINKS)
      [] OTHER -> ContainsAllExpected(BOUNDARIES, REQUIRED_SECTIONS)

Completed == {runs[i] : i \in 1..Len(runs)}

ErrorLines(out) == {k \in 1..Len(out) : StartsWith(out[k], "ERROR:")}

-----------------------------------------------------------------------------
\* C1: for each of the three checkers, on every snapshot that satisfies all
\* of the checker's expectations, the run exits 0 and prints exactly one
\* line, which contains the checker's name and "OK" and does not begin with
\* "ERROR:".
C1_AllSatisfiedPrintsOk ==
    \A r \in Completed :
        AllSatisfied =>
            /\ r.status = 0
            /\ ~r.uncaught
            /\ Len(Stdout(r)) = 1
            /\ Occurs(checker, Stdout(r)[1])
            /\ Occurs("OK", Stdout(r)[1])
            /\ ErrorLines(Stdout(r)) = {}

\* A repo_lint run on a satisfying snapshot that is not the conforming one:
\* AGENTS.md ends without a newline and ROOT holds a file named tmp.
C1_Witness ==
    /\ checker = "repo_lint"
    /\ AllSatisfied
    /\ fs.kind[PathJoin(ROOT, "tmp")] = "file"
    /\ fs.content[AGENTS] # AgentsText(MAX_AGENTS_LINES, "")
    /\ Len(runs) = 2
    /\ runs[2].status = 0

-----------------------------------------------------------------------------
\* C3: in docs_index_check, when the index is a readable file whose text
\* lacks a non-empty set M of the required links, the run exits 1 and prints
\* the header line followed by exactly one bullet per element of M, in
\* REQUIRED_LINKS order, and nothing else; every substring test is made
\* before the first line is printed.
C3_DocsIndexListsMissing ==
    (checker = "docs_index_check" /\ Readable(INDEX)) =>
        \A r \in Completed :
            LET M   == Lacking(INDEX, REQUIRED_LINKS)
                out == Stdout(r)
                \* the link a bullet line names, 0 when it names none in M
                named(k) == IF \E i \in M : out[k] = " - " \o REQUIRED_LINKS[i]
                            THEN CHOOSE i \in M : out[k] = " - " \o REQUIRED_LINKS[i]
                            ELSE 0
                tests  == {j \in 1..Len(r.trace) : r.trace[j].op = "in"}
                prints == {j \in 1..Len(r.trace) : r.trace[j].op = "print"}
            IN  M # {} =>
                    /\ r.status = 1
                    /\ ~r.uncaught
                    /\ Len(out) = 1 + Cardinality(M)
                    /\ out[1] = "ERROR: docs index is missing required references:"
                    /\ \A k \in 2..Len(out) : named(k) # 0
                    /\ \A k \in 2..(Len(out) - 1) : named(k) < named(k + 1)
                    /\ Cardinality(tests) = Len(REQUIRED_LINKS)
                    /\ \A j \in tests, k \in prints : j < k

\* A run that lists two missing references, the second of them mentioned in
\* the index without its final "/".
C3_Witness ==
    /\ checker = "docs_index_check"
    /\ Readable(INDEX)
    /\ Lacking(INDEX, REQUIRED_LINKS) = {2, 6}
    /\ Occurs("docs/06_reference", fs.content[INDEX])
    /\ Len(runs) >= 1
    /\ Stdout(runs[1]) = << "ERROR: docs index is missing required references:",
                            " - docs/02_architecture/",
                            " - docs/06_reference/" >>

-----------------------------------------------------------------------------
\* C4: in repo_lint, with all required files and directories present and
\* AGENTS.md readable, the line-count check passes for every line count
\* n <= MAX_AGENTS_LINES (main() goes on to read the docs index) and fails
\* for every n > MAX_AGENTS_LINES: the run then exits 1 and its only line
\* names n and the maximum.
C4_LineCountBoundary ==
    (checker = "repo_lint" /\ runs # <<>> /\ AllFilesExpected /\ AllDirsExpected
        /\ Readable(AGENTS)) =>
        LET n == LineCountOf(fs.content[AGENTS])
        IN  \A r \in Completed :
                /\ n <= MAX_AGENTS_LINES =>
                       /\ \E j \in 1..Len(r.trace) : r.trace[j] = Ev("read_text", INDEX)
                       /\ \A k \in 1..Len(Stdout(r)) : ~Occurs("too long", Stdout(r)[k])
                /\ n > MAX_AGENTS_LINES =>
                       /\ r.status = 1
                       /\ ~r.uncaught
                       /\ Stdout(r) = << "ERROR: AGENTS.md too long: " \o Str(n)
                                           \o " lines (max " \o Str(MAX_AGENTS_LINES) \o ")" >>
                       /\ \A j \in 1..Len(r.trace) : r.trace[j] # Ev("read_text", INDEX)

\* A run on an AGENTS.md one line past the ceiling.
C4_Witness ==
    /\ checker = "repo_lint"
    /\ AllFilesExpected /\ AllDirsExpected /\ Readable(AGENTS)
    /\ LineCountOf(fs.content[AGENTS]) = MAX_AGENTS_LINES + 1
    /\ Len(runs) >= 1
    /\ Stdout(runs[1]) = << "ERROR: AGENTS.md too long: 201 lines (max 200)" >>

-----------------------------------------------------------------------------
\* C5: in repo_lint, with every earlier expectation satisfied, the run fails
\* iff some disallowed name is a directory directly under ROOT; it then
\* exits 1 and its only line lists exactly those directories (each once,
\* nothing else), so that a hidden directory or a file with a disallowed name
\* is never listed.  Otherwise the run succeeds.
C5_DisallowedTopLevelDirs ==
    (checker = "repo_lint" /\ runs # <<>> /\ AllFilesExpected /\ AllDirsExpected
        /\ LineCountExpected /\ ContainsAllExpected(INDEX, EXPECTED_INDEX_REFERENCES)) =>
        \A r \in Completed :
            /\ OffendingDirs = {} =>
                   /\ r.status = 0
                   /\ Stdout(r) = << "repo_lint: OK" >>
            /\ OffendingDirs # {} =>
                   /\ r.status = 1
                   /\ ~r.uncaught
                   /\ \E listed \in IterationOrders(OffendingDirs) :
                          Stdout(r) = << "ERROR: Disallowed top-level directories found: "
                                            \o Join(", ", listed) >>

\* A run that reports the directory notes and not the hidden directory .tmp.
C5_Witness ==
    /\ checker = "repo_lint"
    /\ fs.kind[PathJoin(ROOT, ".tmp")] = "dir"
    /\ OffendingDirs = {"notes"}
    /\ Len(runs) >= 1
    /\ Stdout(runs[1]) = << "ERROR: Disallowed top-level directories found: notes" >>

-----------------------------------------------------------------------------
\* The number of expectations of the invoked checker that the snapshot leaves
\* unsatisfied: each required path of the wrong kind, each required substring
\* that a readable file lacks, the line limit that a readable AGENTS.md
\* exceeds, the disallowed-directory rule; a missing or unreadable target of
\* docs_index_check or architecture_lint counts once.
UnsatisfiedCount ==
    LET lacking(path, required) ==
            IF Readable(path) THEN Cardinality(Lacking(path, required)) ELSE 0
    IN  CASE checker = "repo_lint" ->
                Cardinality({i \in 1..Len(REQUIRED_FILES) : ~FileExpected(REQUIRED_FILES[i])})
                + Cardinality({i \in 1..Len(REQUIRED_DOC_DIRS) :
                                  ~DirExpected(PathJoin(ROOT, REQUIRED_DOC_DIRS[i]))})
                + (IF Readable(AGENTS) /\ ~LineCountExpected THEN 1 ELSE 0)
                + lacking(INDEX, EXPECTED_INDEX_REFERENCES)
                + (IF OffendingDirs = {} THEN 0 ELSE 1)
          [] checker = "docs_index_check" ->
                IF Readable(INDEX) THEN lacking(INDEX, REQUIRED_LINKS) ELSE 1
          [] OTHER ->
                IF Readable(BOUNDARIES) THEN lacking(BOUNDARIES, REQUIRED_SECTIONS) ELSE 1

-----------------------------------------------------------------------------
\* C9: two runs of a checker against the same filesystem print the same
\* lines and end the same way, whatever order the set of offending
\* directories is iterated in.
C9_RunsAgree ==
    Len(runs) = 2 =>
        /\ Stdout(runs[1]) = Stdout(runs[2])
        /\ runs[1].status = runs[2].status
        /\ runs[1].uncaught = runs[2].uncaught

\* Two repo_lint runs on a snapshot with two offending directories.
C9_Witness ==
    /\ checker = "repo_lint"
    /\ OffendingDirs = {"notes", "tmp"}
    /\ Len(runs) = 2
    /\ Stdout(runs[2]) = << "ERROR: Disallowed top-level directories found: notes, tmp" >>

-----------------------------------------------------------------------------
\* C10: in repo_lint every read of a file comes after the existence check of
\* every required file and the is_dir check of every required directory,
\* all of which passed, and after the existence check of the path that is
\* read; a run that reports a missing required file or directory reads
\* nothing.
C10_ReadsAfterExistenceChecks ==
    checker = "repo_lint" =>
        \A r \in Completed :
            LET reads == {j \in 1..Len(r.trace) : r.trace[j].op = "read_text"}
            IN  /\ \A j \in reads :
                       /\ \A p \in Range(REQUIRED_FILES) :
                              /\ \E i \in 1..(j - 1) : r.trace[i] = Ev("exists", p)
                              /\ fs.kind[p] # "absent"
                       /\ \A d \in DocDirPaths :
                              /\ \E i \in 1..(j - 1) : r.trace[i] = Ev("is_dir", d)
                              /\ fs.kind[d] = "dir"
                       /\ \E i \in 1..(j - 1) : r.trace[i] = Ev("exists", r.trace[j].arg)
                /\ (\E k \in 1..Len(Stdout(r)) :
                        StartsWith(Stdout(r)[k], "ERROR: Missing required")) => reads = {}

\* A run that read both AGENTS.md and the docs index, and failed on the
\* index.
C10_Witness ==
    /\ checker = "repo_lint"
    /\ Len(runs) >= 1
    /\ \E j \in 1..Len(runs[1].trace) : runs[1].trace[j] = Ev("read_text", AGENTS)
    /\ \E j \in 1..Len(runs[1].trace) : runs[1].trace[j] = Ev("read_text", INDEX)
    /\ Stdout(runs[1]) = << "ERROR: docs index missing reference: docs/03_execution_plans/" >>

-----------------------------------------------------------------------------
\* The first required file that is not a file, the first required directory
\* that is not a directory, the first required substring a text lacks.
FirstBadFile ==
    REQUIRED_FILES[CHOOSE i \in 1..Len(REQUIRED_FILES) :
        /\ ~FileExpected(REQUIRED_FILES[i])
        /\ \A j \in 1..(i - 1) : FileExpected(REQUIRED_FILES[j])]

FirstBadDir ==
    REQUIRED_DOC_DIRS[CHOOSE i \in 1..Len(REQUIRED_DOC_DIRS) :
        /\ ~DirExpected(PathJoin(ROOT, REQUIRED_DOC_DIRS[i]))
        /\ \A j \in 1..(i - 1) : DirExpected(PathJoin(ROOT, REQUIRED_DOC_DIRS[j]))]

FirstLacking(path, required) ==
    required[CHOOSE i \in Lacking(path, required) :
        \A j \in Lacking(path, required) : i <= j]

\* What the failure line of a fail-fast checker has to name: the first
\* unsatisfied expectation in the order (a) required files, (b) required
\* directories, (c) line limit, (d) index references, (e) disallowed
\* directories; for architecture_lint the boundaries file, then the sections.
FirstFailureNamed ==
    CASE checker = "repo_lint" ->
            IF ~AllFilesExpected
            THEN "Missing required file: " \o RelativeTo(FirstBadFile, ROOT)
            ELSE IF ~AllDirsExpected
            THEN "Missing required directory: " \o FirstBadDir
            ELSE IF ~LineCountExpected
            THEN "AGENTS.md too long"
            ELSE IF Lacking(INDEX, EXPECTED_INDEX_REFERENCES) # {}
            THEN "docs index missing reference: "
                     \o FirstLacking(INDEX, EXPECTED_INDEX_REFERENCES)
            ELSE "Disallowed top-level directories found"
      [] OTHER ->
            IF ~FileExpected(BOUNDARIES)
            THEN "missing docs/02_architecture/boundaries.md"
            ELSE "missing section: " \o FirstLacking(BOUNDARIES, REQUIRED_SECTIONS)

\* C2, as claimed (for snapshots whose read files hold UTF-8 text): in
\* repo_lint and architecture_lint every run with an unsatisfied expectation
\* exits nonzero and prints exactly one line, an "ERROR:" line naming the
\* first unsatisfied expectation in the defined order.
C2_FailFastNamesFirstFailure ==
    (checker \in {"repo_lint", "architecture_lint"}
        /\ (\A p \in ReadPaths : fs.decodable[p])
        /\ runs # <<>>
        /\ ~AllSatisfied) =>
        \A r \in Completed :
            /\ r.status # 0
            /\ Len(Stdout(r)) = 1
            /\ StartsWith(Stdout(r)[1], "ERROR:")
            /\ Occurs(FirstFailureNamed, Stdout(r)[1])

\* C6, as claimed: in repo_lint a required-file check passes only when the
\* path is a file, so that the first required path that is not a file is
\* reported as a missing required file; and, the required files being
\* files, the first required directory that is not a directory is reported
\* as a missing required directory.
C6_PathKindIsChecked ==
    (checker = "repo_lint" /\ runs # <<>>) =>
        \A r \in Completed :
            /\ ~AllFilesExpected =>
                   /\ r.status = 1
                   /\ Stdout(r) = << "ERROR: Missing required file: "
                                        \o RelativeTo(FirstBadFile, ROOT) >>
            /\ (AllFilesExpected /\ ~AllDirsExpected) =>
                   /\ r.status = 1
                   /\ Stdout(r) = << "ERROR: Missing required directory: " \o FirstBadDir >>

\* C8, as claimed: in docs_index_check and architecture_lint, when the target
\* file exists but cannot be read as UTF-8 text, the run prints a diagnostic
\* and exits 1 without ending in an uncaught error.
C8_UnreadableIsReported ==
    LET target == IF checker = "docs_index_check" THEN INDEX ELSE BOUNDARIES
    IN  (checker \in {"docs_index_check", "architecture_lint"}
            /\ fs.kind[target] # "absent"
            /\ ~Readable(target)) =>
            \A r \in Completed :
                /\ r.status = 1
                /\ ~r.uncaught
                /\ ErrorLines(Stdout(r)) # {}

=============================================================================
